---- MODULE Spec2Model ----
(***************************************************************************)
(* Model of frontend/src/components/pages/Profile.tsx: the Profile        *)
(* container (route/auth driven fetch, edit permission, profile update)   *)
(* composed with the RenderProfile view (edit session, EventSource         *)
(* subscription).                                                          *)
(*                                                                         *)
(* React semantics used by the model:                                      *)
(*  - state updates made in one continuation are batched into one commit;  *)
(*  - an effect is re-run (cleanup first, then setup) when a dependency    *)
(*    changes identity; function values declared in a component body       *)
(*    (handleNewImage, handleNewUrdf) get a new identity on every render   *)
(*    of that component;                                                   *)
(*  - a component keeps its state while it stays rendered at the same      *)
(*    position, and loses it (running its effect cleanups) when it is not  *)
(*    rendered;                                                            *)
(*  - an async function closes over the values of the render that created  *)
(*    it.                                                                  *)
(***************************************************************************)
EXTENDS Integers, Sequences, FiniteSets, TLC

\* ---- bounds of the model ----
MaxFetches == 2   \* GET requests issued
MaxPuts == 1      \* PUT requests issued by the page
MaxSources == 3   \* EventSource objects created by the page
MaxStreams == 2   \* EventSource objects created, where only subscriptions are studied
MaxCalls == 2     \* calls of onUpdateProfile made by RenderProfile alone

\* ---- value domains ----
Ids == {"u1", "u2"}
NoId == "undefined"
Absent == "absent"
DraftVals == {"", "a"}
EventTypes == {"image", "urdf", "other"}
PayloadIds == {"x1"}
EventIds == {"x1", "x2"}
Outcomes == {"ok", "error", "throw"}

\* the optional fields of the records the backend and the auth provider hold
FieldCombos == {<<Absent, Absent, Absent>>, <<"a", Absent, "a">>}
UserResponse ==
  {[id |-> i, first_name |-> c[1], last_name |-> c[2], bio |-> c[3]] :
     i \in Ids, c \in FieldCombos}
NoUser == [id |-> NoId, first_name |-> Absent, last_name |-> Absent, bio |-> Absent]

VARIABLES
  mounted,      \* life cycle of the Profile page: "init", "mounted", "unmounted"
  routeId,      \* useParams().id, NoId when the route carries none
  authLoading,  \* auth.isLoading
  currentUser,  \* auth.currentUser, NoUser when null
  user,         \* Profile state: user
  canEdit,      \* Profile state: canEdit
  isLoading,    \* Profile state: isLoading
  fetches,      \* GET requests in flight, each with the values its closure captured
  fetchCount,   \* GET requests issued so far
  alerts,       \* alerts handed to the alert queue by the last step
  isEditing,    \* RenderProfile state
  isSubmitting, \* RenderProfile state
  firstName,    \* RenderProfile state
  lastName,     \* RenderProfile state
  bio,          \* RenderProfile state
  puts,         \* PUT requests in flight, each with the values its closures captured
  promise,      \* the promises onUpdateProfile has returned, in call order:
                \* "pending", "resolved" or "rejected"
  es,           \* EventSource objects created so far, the one owned by the live effect, peak of open ones
  handled,      \* invocations of onNewImage / onNewUrdf made by the last step
  created_at,   \* user.created_at of the subject whose join date is rendered: <<t>>, or <<>> when missing
  zone,         \* offset of the browser's time zone from UTC, in minutes
  joined        \* text rendered after "Joined on", "" before the first render

profileVars == <<user, canEdit, isLoading>>
viewVars == <<isEditing, isSubmitting, firstName, lastName, bio>>
envVars == <<mounted, routeId, authLoading, currentUser>>
vars == <<mounted, routeId, authLoading, currentUser, user, canEdit, isLoading,
          fetches, fetchCount, alerts, isEditing, isSubmitting, firstName,
          lastName, bio, puts, promise, es, handled, created_at, zone, joined>>
joinVars == <<created_at, zone, joined>>

\* ---- pure helpers ----
\* x || ""
OrEmpty(x) == IF x = Absent \/ x = "" THEN "" ELSE x

\* a merge that drops the response: { ...u }
MergeDropsData(u, d) == u

\* { ...u, ...d }: keys present in d override those of u
Merge(u, d) ==
  [k \in DOMAIN u |-> IF d[k] = Absent THEN u[k] ELSE d[k]]

Max(a, b) == IF a >= b THEN a ELSE b

NumOpen(S) == Cardinality({h \in DOMAIN S : S[h].open})

\* ---- the EventSource effect of RenderProfile ----
EffectSetup(E, uid) ==
  LET S == Append(E.src, [uid |-> uid, open |-> TRUE, listeners |-> {"image", "urdf"}])
  IN [src |-> S, cur |-> Len(S), peak |-> Max(E.peak, NumOpen(S))]

\* a cleanup that forgets eventSource.close()
EffectCleanupKeepsOpen(E) ==
  IF E.cur = 0 THEN E
  ELSE [E EXCEPT !.src[E.cur] = [@ EXCEPT !.listeners = {}], !.cur = 0]

\* an effect that returns no cleanup function
EffectCleanupSkipped(E) == [E EXCEPT !.cur = 0]

EffectCleanup(E) ==
  IF E.cur = 0 THEN E
  ELSE [E EXCEPT !.src[E.cur] = [@ EXCEPT !.open = FALSE, !.listeners = {}],
                 !.cur = 0]

EffectRerun(E, uid) == EffectSetup(EffectCleanup(E), uid)

\* ---- what is rendered ----
Shown ==
  mounted = "mounted" /\ ~authLoading /\ ~isLoading /\ user # NoUser

Orphan(P) == {[p EXCEPT !.alive = FALSE] : p \in P}

ViewState == [isEditing |-> isEditing, isSubmitting |-> isSubmitting,
              firstName |-> firstName, lastName |-> lastName, bio |-> bio]

SetView(v) ==
  /\ isEditing' = v.isEditing
  /\ isSubmitting' = v.isSubmitting
  /\ firstName' = v.firstName
  /\ lastName' = v.lastName
  /\ bio' = v.bio

\* state of a RenderProfile instance at its first render
InitialView(u) ==
  [isEditing |-> FALSE, isSubmitting |-> FALSE,
   firstName |-> OrEmpty(u.first_name), lastName |-> OrEmpty(u.last_name),
   bio |-> OrEmpty(u.bio)]

\* canonical value of the view variables while no RenderProfile is rendered
NoView == InitialView(NoUser)

\* Commit of the RenderProfile subtree after an operation has fixed the next
\* values of the environment and of Profile's state.
\*   ctx: the operation changed a context Profile reads (route, auth), so
\*        Profile renders once with the new context before its effect runs;
\*   rer: Profile's own state update re-renders it;
\*   v:   the view state if the RenderProfile instance survives;
\*   P:   the PUT requests in flight after the operation.
Commit(ctx, rer, v, P) ==
  LET mid == Shown /\ mounted' = "mounted" /\ ~authLoading'
      E1 == IF ctx /\ mid THEN EffectRerun(es, user.id) ELSE es
      now == mounted' = "mounted" /\ ~authLoading' /\ ~isLoading' /\ user' # NoUser
  IN IF ~now
       THEN /\ SetView(NoView)
            /\ es' = EffectCleanup(E1)
            /\ puts' = Orphan(P)
     ELSE IF ~Shown
       THEN /\ SetView(InitialView(user'))
            /\ es' = EffectSetup(E1, user'.id)
            /\ puts' = Orphan(P)
     ELSE /\ SetView(v)
          /\ es' = IF rer \/ user'.id # user.id THEN EffectRerun(E1, user'.id) ELSE E1
          /\ puts' = P

\* ---- Profile: the fetch effect ----
NewFetch(path, id, cur) ==
  [n |-> fetchCount + 1, path |-> path, id |-> id, cur |-> cur]

\* a fetchUser that asks the "me" endpoint even when auth.currentUser is set
fetchUserSkipsCache(id, cu) ==
  IF id = NoId
    THEN [user |-> user, canEdit |-> canEdit, isLoading |-> TRUE,
          req |-> {NewFetch("me", NoId, NoId)}]
    ELSE [user |-> user, canEdit |-> canEdit, isLoading |-> TRUE,
          req |-> {NewFetch("id", id, cu.id)}]

\* the synchronous part of fetchUser, in a render with route id `id` and
\* auth.currentUser `cu`
fetchUser(id, cu) ==
  IF id = NoId
    THEN IF cu # NoUser
           THEN [user |-> cu, canEdit |-> TRUE, isLoading |-> FALSE, req |-> {}]
           ELSE [user |-> user, canEdit |-> canEdit, isLoading |-> TRUE,
                 req |-> {NewFetch("me", NoId, NoId)}]
    ELSE [user |-> user, canEdit |-> canEdit, isLoading |-> TRUE,
          req |-> {NewFetch("id", id, cu.id)}]

\* an effect body that calls fetchUser without looking at auth.isLoading
ProfileEffectUnguarded(id, cu, al) == fetchUser(id, cu)

\* the effect body: fetchUser is called only when auth has finished loading
ProfileEffect(id, cu, al) ==
  IF al THEN [user |-> user, canEdit |-> canEdit, isLoading |-> isLoading, req |-> {}]
  ELSE fetchUser(id, cu)

RunProfileEffect(ctx) ==
  LET r == ProfileEffect(routeId', currentUser', authLoading') IN
  /\ user' = r.user
  /\ canEdit' = r.canEdit
  /\ isLoading' = r.isLoading
  /\ fetches' = fetches \cup r.req
  /\ fetchCount' = fetchCount + Cardinality(r.req)
  /\ fetchCount' <= MaxFetches
  /\ Commit(ctx, r.user # user \/ r.canEdit # canEdit, ViewState, puts)

\* ---- environment: page life cycle, router, auth provider ----
Mount ==
  /\ mounted = "init"
  /\ mounted' = "mounted"
  /\ UNCHANGED <<routeId, authLoading, currentUser>>
  /\ RunProfileEffect(FALSE)
  /\ UNCHANGED <<promise>>
  /\ alerts' = <<>>
  /\ handled' = <<>>

Unmount ==
  /\ mounted = "mounted"
  /\ mounted' = "unmounted"
  /\ UNCHANGED <<routeId, authLoading, currentUser, user, canEdit, isLoading,
                 fetches, fetchCount, promise>>
  /\ alerts' = <<>>
  /\ handled' = <<>>
  /\ Commit(FALSE, FALSE, ViewState, puts)

RouteChange(id) ==
  /\ mounted = "mounted"
  /\ id # routeId
  /\ routeId' = id
  /\ UNCHANGED <<mounted, authLoading, currentUser>>
  /\ RunProfileEffect(TRUE)
  /\ UNCHANGED <<promise>>
  /\ alerts' = <<>>
  /\ handled' = <<>>

AuthLoaded(cu) ==
  /\ mounted = "mounted"
  /\ authLoading
  /\ authLoading' = FALSE
  /\ currentUser' = cu
  /\ UNCHANGED <<mounted, routeId>>
  /\ RunProfileEffect(TRUE)
  /\ UNCHANGED <<promise>>
  /\ alerts' = <<>>
  /\ handled' = <<>>

AuthChange(cu) ==
  /\ mounted = "mounted"
  /\ ~authLoading
  /\ cu # currentUser
  /\ currentUser' = cu
  /\ UNCHANGED <<mounted, routeId, authLoading>>
  /\ RunProfileEffect(TRUE)
  /\ UNCHANGED <<promise>>
  /\ alerts' = <<>>
  /\ handled' = <<>>

\* ---- Profile: completion of a GET ----
Raise(kind) == alerts' = <<kind>>

\* a continuation that drops the response of a request the route has left behind
FetchResultDropsStale(f, out, data) ==
  IF f.path = "id" /\ f.id # routeId
    THEN [user |-> user, canEdit |-> canEdit, isLoading |-> isLoading, alert |-> FALSE]
  ELSE IF f.path = "me"
    THEN CASE out = "ok" -> [user |-> data, canEdit |-> TRUE, isLoading |-> FALSE, alert |-> FALSE]
           [] out = "error" -> [user |-> user, canEdit |-> canEdit, isLoading |-> FALSE, alert |-> TRUE]
           [] OTHER -> [user |-> user, canEdit |-> canEdit, isLoading |-> isLoading, alert |-> FALSE]
    ELSE CASE out = "ok" -> [user |-> data, canEdit |-> (f.cur = data.id), isLoading |-> FALSE, alert |-> FALSE]
           [] OTHER -> [user |-> user, canEdit |-> canEdit, isLoading |-> FALSE, alert |-> TRUE]

\* the continuation of fetchUser after its await, for request f
FetchResult(f, out, data) ==
  IF f.path = "me"
    THEN CASE out = "ok" -> [user |-> data, canEdit |-> TRUE, isLoading |-> FALSE, alert |-> FALSE]
           [] out = "error" -> [user |-> user, canEdit |-> canEdit, isLoading |-> FALSE, alert |-> TRUE]
           [] OTHER -> [user |-> user, canEdit |-> canEdit, isLoading |-> isLoading, alert |-> FALSE]
    ELSE CASE out = "ok" -> [user |-> data, canEdit |-> (f.cur = data.id), isLoading |-> FALSE, alert |-> FALSE]
           [] OTHER -> [user |-> user, canEdit |-> canEdit, isLoading |-> FALSE, alert |-> TRUE]

FetchDone(f, out, data) ==
  LET r == FetchResult(f, out, data)
      live == mounted = "mounted"
  IN
  /\ f \in fetches
  /\ (out = "ok") = (data # NoUser)
  /\ (out = "ok" /\ f.path = "id") => data.id = f.id
  /\ UNCHANGED <<mounted, routeId, authLoading, currentUser, fetchCount, promise>>
  /\ handled' = <<>>
  /\ fetches' = fetches \ {f}
  /\ user' = IF live THEN r.user ELSE user
  /\ canEdit' = IF live THEN r.canEdit ELSE canEdit
  /\ isLoading' = IF live THEN r.isLoading ELSE isLoading
  /\ IF r.alert THEN Raise("error") ELSE alerts' = <<>>
  /\ Commit(FALSE, out = "ok", ViewState, puts)

\* ---- RenderProfile: the edit session ----
Edit ==
  /\ Shown /\ ~isEditing /\ canEdit
  /\ isEditing' = TRUE
  /\ UNCHANGED <<isSubmitting, firstName, lastName, bio>>
  /\ UNCHANGED <<envVars, profileVars, fetches, fetchCount, puts, promise, es>>
  /\ alerts' = <<>>
  /\ handled' = <<>>

Cancel ==
  /\ Shown /\ isEditing /\ ~isSubmitting
  /\ isEditing' = FALSE
  /\ UNCHANGED <<isSubmitting, firstName, lastName, bio>>
  /\ UNCHANGED <<envVars, profileVars, fetches, fetchCount, puts, promise, es>>
  /\ alerts' = <<>>
  /\ handled' = <<>>

SetFirstName(v) ==
  /\ Shown /\ isEditing
  /\ v # firstName
  /\ firstName' = v
  /\ UNCHANGED <<isEditing, isSubmitting, lastName, bio>>
  /\ UNCHANGED <<envVars, profileVars, fetches, fetchCount, puts, promise, es>>
  /\ alerts' = <<>>
  /\ handled' = <<>>

SetLastName(v) ==
  /\ Shown /\ isEditing
  /\ v # lastName
  /\ lastName' = v
  /\ UNCHANGED <<isEditing, isSubmitting, firstName, bio>>
  /\ UNCHANGED <<envVars, profileVars, fetches, fetchCount, puts, promise, es>>
  /\ alerts' = <<>>
  /\ handled' = <<>>

SetBio(v) ==
  /\ Shown /\ isEditing
  /\ v # bio
  /\ bio' = v
  /\ UNCHANGED <<isEditing, isSubmitting, firstName, lastName>>
  /\ UNCHANGED <<envVars, profileVars, fetches, fetchCount, puts, promise, es>>
  /\ alerts' = <<>>
  /\ handled' = <<>>

\* a save action that stays available while a submission is pending
handleSubmitUngated ==
  /\ Shown /\ isEditing
  /\ isSubmitting' = TRUE
  /\ promise' = Append(promise, "pending")
  /\ puts' = puts \cup {[n |-> Len(promise) + 1,
                         body |-> [first_name |-> firstName, last_name |-> lastName, bio |-> bio],
                         base |-> user, alive |-> TRUE]}
  /\ UNCHANGED <<isEditing, firstName, lastName, bio>>
  /\ UNCHANGED <<envVars, profileVars, fetches, fetchCount, es>>
  /\ alerts' = <<>>
  /\ handled' = <<>>

\* handleSubmit up to its await
handleSubmit ==
  /\ Shown /\ isEditing /\ ~isSubmitting
  /\ isSubmitting' = TRUE
  /\ promise' = Append(promise, "pending")
  /\ puts' = puts \cup {[n |-> Len(promise) + 1,
                         body |-> [first_name |-> firstName, last_name |-> lastName, bio |-> bio],
                         base |-> user, alive |-> TRUE]}
  /\ UNCHANGED <<isEditing, firstName, lastName, bio>>
  /\ UNCHANGED <<envVars, profileVars, fetches, fetchCount, es>>
  /\ alerts' = <<>>
  /\ handled' = <<>>

\* a handleSubmit whose setIsEditing(false) sits in the finally block
SubmitSettledLeavesEdit(p, rejected) ==
  IF p.alive
    THEN [ViewState EXCEPT !.isEditing = FALSE, !.isSubmitting = FALSE]
    ELSE ViewState

\* handleSubmit after its await: the view state of the instance that
\* submitted p (an unmounted instance ignores the updates)
SubmitSettled(p, rejected) ==
  IF p.alive
    THEN [ViewState EXCEPT !.isEditing = IF rejected THEN @ ELSE FALSE,
                           !.isSubmitting = FALSE]
    ELSE ViewState

\* PUT /users/me answers with the updated fields: those of the body, any of
\* which the answer may omit
NoData == [id |-> Absent, first_name |-> Absent, last_name |-> Absent, bio |-> Absent]
PutResponses(body) ==
  {[id |-> Absent, first_name |-> body.first_name, last_name |-> body.last_name, bio |-> b] :
     b \in {body.bio, Absent}} \cup {NoData}

\* a handleUpdateProfile whose failures reach the caller: the promise rejects
handleUpdateProfileRethrows(p, out, data) ==
  /\ p \in puts
  /\ out # "ok" => data = NoData
  /\ UNCHANGED <<envVars, fetches, fetchCount>>
  /\ handled' = <<>>
  /\ promise' = [promise EXCEPT ![p.n] = IF out = "ok" THEN "resolved" ELSE "rejected"]
  /\ user' = IF out = "ok" /\ mounted = "mounted" THEN Merge(p.base, data) ELSE user
  /\ Raise(IF out = "ok" THEN "success" ELSE "error")
  /\ UNCHANGED <<canEdit, isLoading>>
  /\ Commit(FALSE, out = "ok", SubmitSettled(p, out # "ok"), puts \ {p})

\* handleUpdateProfile after its await, followed by handleSubmit's continuation
handleUpdateProfile(p, out, data) ==
  /\ p \in puts
  /\ out # "ok" => data = NoData
  /\ UNCHANGED <<envVars, fetches, fetchCount>>
  /\ handled' = <<>>
  /\ promise' = [promise EXCEPT ![p.n] = "resolved"]
  /\ user' = IF out = "ok" /\ mounted = "mounted" THEN Merge(p.base, data) ELSE user
  /\ Raise(IF out = "ok" THEN "success" ELSE "error")
  /\ UNCHANGED <<canEdit, isLoading>>
  /\ Commit(FALSE, out = "ok", SubmitSettled(p, FALSE), puts \ {p})

\* ---- RenderProfile: push events ----
\* a handleEvent whose switch cases are exchanged
handleEventSwapped(t, x) ==
  CASE t = "image" -> <<[handler |-> "onNewUrdf", arg |-> x]>>
    [] t = "urdf" -> <<[handler |-> "onNewImage", arg |-> x]>>
    [] OTHER -> <<>>

\* handleEvent for an event of type t with payload {"id": x}
handleEvent(t, x) ==
  CASE t = "image" -> <<[handler |-> "onNewImage", arg |-> x]>>
    [] t = "urdf" -> <<[handler |-> "onNewUrdf", arg |-> x]>>
    [] OTHER -> <<>>

\* the server emits an event on the stream of source h; the browser dispatches
\* it to the listeners registered for its type while the source is open
Emit(h, t, x) ==
  /\ h \in DOMAIN es.src
  /\ handled' = IF es.src[h].open /\ t \in es.src[h].listeners
                  THEN handleEvent(t, x)
                  ELSE <<>>
  /\ UNCHANGED <<envVars, profileVars, viewVars, fetches, fetchCount, puts, promise, es>>
  /\ alerts' = <<>>

\* ---- specification of the composed page ----
\* the records the auth provider may hold for the signed-in user
AuthRecords == {u \in UserResponse : u.first_name = "a"}
AuthStates == {<<TRUE, NoUser>>} \cup {<<FALSE, cu>> : cu \in AuthRecords \cup {NoUser}}

Init ==
  /\ mounted = "init"
  /\ routeId \in Ids \cup {NoId}
  /\ \E a \in AuthStates : authLoading = a[1] /\ currentUser = a[2]
  /\ user = NoUser
  /\ canEdit = FALSE
  /\ isLoading = TRUE
  /\ fetches = {}
  /\ fetchCount = 0
  /\ alerts = <<>>
  /\ isEditing = FALSE
  /\ isSubmitting = FALSE
  /\ firstName = ""
  /\ lastName = ""
  /\ bio = ""
  /\ puts = {}
  /\ promise = <<>>
  /\ es = [src |-> <<>>, cur |-> 0, peak |-> 0]
  /\ handled = <<>>
  /\ created_at = <<>> /\ zone = 0 /\ joined = ""

\* the steps of the page that create at most S EventSource objects in all,
\* with the bodies of the GET responses drawn from D
PageStep(S, D) ==
  \/ Mount /\ Len(es'.src) <= S /\ UNCHANGED joinVars
  \/ Unmount /\ UNCHANGED joinVars
  \/ \E id \in Ids \cup {NoId} : RouteChange(id) /\ Len(es'.src) <= S /\ UNCHANGED joinVars
  \/ \E cu \in AuthRecords \cup {NoUser} : AuthLoaded(cu) /\ Len(es'.src) <= S /\ UNCHANGED joinVars
  \/ \E cu \in AuthRecords \cup {NoUser} : AuthChange(cu) /\ Len(es'.src) <= S /\ UNCHANGED joinVars
  \/ \E f \in fetches, out \in Outcomes, data \in D \cup {NoUser} :
       FetchDone(f, out, data) /\ Len(es'.src) <= S /\ UNCHANGED joinVars
  \/ Edit /\ UNCHANGED joinVars
  \/ Cancel /\ UNCHANGED joinVars
  \/ Len(promise) < MaxPuts /\ handleSubmit /\ UNCHANGED joinVars
  \/ \E p \in puts, out \in Outcomes : \E data \in PutResponses(p.body) :
       handleUpdateProfile(p, out, data) /\ Len(es'.src) <= S /\ UNCHANGED joinVars

Typing ==
  \/ \E v \in DraftVals : SetFirstName(v) /\ UNCHANGED joinVars
  \/ \E w \in DraftVals : SetLastName(w) /\ UNCHANGED joinVars
  \/ \E z \in DraftVals : SetBio(z) /\ UNCHANGED joinVars

Push == \E h \in DOMAIN es.src, t \in EventTypes, x \in PayloadIds : Emit(h, t, x) /\ UNCHANGED joinVars

\* The page with its edit session. Push events are left to SpecStream: they
\* change nothing but `handled`, which no operation reads.
Next == PageStep(MaxSources, UserResponse) \/ Typing

Spec == Init /\ [][Next]_vars

\* The page with its push events. The typing of drafts is left to Spec: a
\* draft reaches nothing but the body of a PUT, and from there the optional
\* fields of `user`, which no subscription, fetch or permission depends on.
\* For the same reason the GET responses carry one record per id here.
NextStream == PageStep(MaxStreams, AuthRecords) \/ Push

SpecStream == Init /\ [][NextStream]_vars

\* The page alone, without typing and without push events.
NextPage == PageStep(MaxStreams, AuthRecords)

SpecPage == Init /\ [][NextPage]_vars

\* the network settles a GET request that is in flight, whatever the number
\* of EventSource objects created so far
Completion ==
  \E f \in fetches, out \in Outcomes, data \in AuthRecords \cup {NoUser} :
    FetchDone(f, out, data) /\ UNCHANGED joinVars

\* The page under a network that settles every request: the promise of a GET
\* that is in flight is eventually resolved or rejected. Nothing obliges the
\* user, the router or the auth provider to act.
NextLive == NextPage \/ Completion

SpecLive == Init /\ [][NextLive]_vars /\ WF_vars(Completion)

\* ---- specification of one RenderProfile instance under an arbitrary parent ----
\* the promise of call p settles: handleSubmit after its await
CallbackSettles(p, rejected) ==
  /\ p \in puts
  /\ UNCHANGED <<envVars, profileVars, fetches, fetchCount>>
  /\ alerts' = <<>>
  /\ handled' = <<>>
  /\ promise' = [promise EXCEPT ![p.n] = IF rejected THEN "rejected" ELSE "resolved"]
  /\ Commit(FALSE, FALSE, SubmitSettled(p, rejected), puts \ {p})

\* the parent renders again, with props u and ce and new handler closures
\* (u = NoUser: it stops rendering RenderProfile, which ends the instance)
ParentRenders(u, ce) ==
  /\ Shown
  /\ u # user \/ ce # canEdit
  /\ user' = u
  /\ canEdit' = ce
  /\ UNCHANGED <<envVars, isLoading, fetches, fetchCount, promise>>
  /\ alerts' = <<>>
  /\ handled' = <<>>
  /\ Commit(FALSE, TRUE, ViewState, puts)

\* a RenderProfile instance right after its mount, with props user and canEdit
ViewMounted ==
  /\ mounted = "mounted"
  /\ routeId = NoId
  /\ authLoading = FALSE
  /\ currentUser = NoUser
  /\ user \in UserResponse
  /\ canEdit \in BOOLEAN
  /\ isLoading = FALSE
  /\ fetches = {}
  /\ fetchCount = 0
  /\ alerts = <<>>
  /\ isEditing = FALSE
  /\ isSubmitting = FALSE
  /\ firstName = OrEmpty(user.first_name)
  /\ lastName = OrEmpty(user.last_name)
  /\ bio = OrEmpty(user.bio)
  /\ puts = {}
  /\ promise = <<>>
  /\ es = EffectSetup([src |-> <<>>, cur |-> 0, peak |-> 0], user.id)
  /\ handled = <<>>

InitView == ViewMounted /\ created_at = <<>> /\ zone = 0 /\ joined = ""

ViewStep ==
  \/ Edit /\ UNCHANGED joinVars
  \/ Cancel /\ UNCHANGED joinVars
  \/ Len(promise) < MaxCalls /\ handleSubmit /\ UNCHANGED joinVars
  \/ \E p \in puts, rejected \in BOOLEAN : CallbackSettles(p, rejected) /\ UNCHANGED joinVars
  \/ \E u \in UserResponse \cup {NoUser}, ce \in BOOLEAN :
       ParentRenders(u, ce) /\ Len(es'.src) <= MaxStreams /\ UNCHANGED joinVars

\* events on any source the instance has created, with either payload id
PushAny ==
  \E h \in DOMAIN es.src, t \in EventTypes, x \in EventIds : Emit(h, t, x) /\ UNCHANGED joinVars

NextView == ViewStep \/ Typing

SpecView == InitView /\ [][NextView]_vars

\* One RenderProfile instance and its push events, under a parent that renders
\* it again at will. The edit session is left to SpecView: an event changes
\* nothing but `handled`, and the edit session does not touch the subscription.
NextEvents ==
  \/ \E u \in UserResponse \cup {NoUser}, ce \in BOOLEAN :
       ParentRenders(u, ce) /\ Len(es'.src) <= MaxStreams /\ UNCHANGED joinVars
  \/ PushAny

SpecEvents == InitView /\ [][NextEvents]_vars

\* ---- RenderProfile: the join date ----
MonthNames == <<"January", "February", "March", "April", "May", "June", "July",
                "August", "September", "October", "November", "December">>

\* the calendar date of day number z counted from 1970-01-01
CivilFromDays(z) ==
  LET s == z + 719468
      era == s \div 146097
      doe == s - era * 146097
      yoe == (doe - doe \div 1460 + doe \div 36524 - doe \div 146096) \div 365
      doy == doe - (365 * yoe + yoe \div 4 - yoe \div 100)
      mp == (5 * doy + 2) \div 153
      d == doy - (153 * mp + 2) \div 5 + 1
      m == IF mp < 10 THEN mp + 3 ELSE mp - 9
      y == yoe + era * 400 + (IF m <= 2 THEN 1 ELSE 0)
  IN [year |-> y, month |-> m, day |-> d]

\* new Date(timestamp * 1000): the instant timestamp * 1000 ms after the
\* epoch, held as its whole seconds and the milliseconds within the second
NewDate(timestamp) == [sec |-> timestamp, ms |-> 0]

\* format(date, "MMMM d, yyyy") in a time zone z minutes ahead of UTC, for
\* years of four digits
format(date, z) ==
  LET c == CivilFromDays((date.sec + z * 60) \div 86400)
  IN MonthNames[c.month] \o " " \o ToString(c.day) \o ", " \o ToString(c.year)

formatJoinDate(timestamp, z) == format(NewDate(timestamp), z)

\* user.created_at ? formatJoinDate(user.created_at) : "Unknown date"
\* (undefined and 0 are falsy)
JoinedOn(ca, z) ==
  IF ca # <<>> /\ ca[1] # 0 THEN formatJoinDate(ca[1], z) ELSE "Unknown date"

\* creation timestamps, in seconds: the epoch, the ends of a day, of a year
\* and of February in a leap year, and a recent instant
Timestamps == {0, 1, 86399, 86400, 946684799, 946684800, 951782400,
               1709251199, 1700000000}
Zones == {-480, 0, 540}

\* RenderProfile renders its read mode
RenderJoinDate ==
  /\ Shown /\ ~isEditing
  /\ joined = ""
  /\ joined' = JoinedOn(created_at, zone)
  /\ UNCHANGED <<envVars, profileVars, viewVars, fetches, fetchCount, alerts,
                 puts, promise, es, handled, created_at, zone>>

InitJoinDate ==
  /\ ViewMounted
  /\ created_at \in {<<>>} \cup {<<t>> : t \in Timestamps}
  /\ zone \in Zones
  /\ joined = ""

NextJoinDate == RenderJoinDate

SpecJoinDate == InitJoinDate /\ [][NextJoinDate]_vars

\* ---- claims ----
Drafts == <<firstName, lastName, bio>>
Seeded(u) == <<OrEmpty(u.first_name), OrEmpty(u.last_name), OrEmpty(u.bio)>>
Alive == {p \in puts : p.alive}

\* C1: whenever the profile view is shown for a route that carries an id and
\* canEdit is true, the authenticated user's id equals the displayed subject's id.
C1_CanEditImpliesOwner ==
  (Shown /\ routeId # NoId /\ canEdit) => currentUser.id = user.id

\* C2: every fetch that completes with an error value or a thrown exception
\* raises an error alert, and once loading has ended the subject is unset
\* (the page renders "User not found"), on the first fetch and on every later one.
C2_FailedFetchUnsetsSubject ==
  [][\A f \in fetches, out \in {"error", "throw"} :
       (mounted = "mounted" /\ FetchDone(f, out, NoUser))
         => (alerts' = <<"error">> /\ (~isLoading' => user' = NoUser))]_vars

\* C3: at most one EventSource is open at any time, also inside a commit, none
\* is open while RenderProfile is not rendered, the open one is the one the
\* live effect owns and has both listeners, and a closed one has no listener.
C3_OneSubscription ==
  /\ NumOpen(es.src) <= 1
  /\ es.peak <= 1
  /\ ~Shown => NumOpen(es.src) = 0
  /\ \A h \in DOMAIN es.src :
       IF es.src[h].open
         THEN h = es.cur /\ es.src[h].listeners = {"image", "urdf"}
         ELSE es.src[h].listeners = {}

C3_Witness == mounted = "unmounted" /\ Len(es.src) = 2

\* C4: whenever a subscription is opened every earlier one has been closed
\* before; a change of the subject id under a mounted view opens one for the
\* new id; and an event reaches a handler only if it was emitted on the
\* current subscription, which is the displayed subject's.
C4_SwitchClosesOld ==
  [][/\ Len(es'.src) > Len(es.src)
        => (es'.peak <= 1 /\ \A h \in DOMAIN es.src : ~es'.src[h].open)
     /\ (Shown /\ Shown' /\ user'.id # user.id)
        => (es'.cur > Len(es.src) /\ es'.src[es'.cur].uid = user'.id)
     /\ handled' # <<>>
        => \A h \in DOMAIN es.src, t \in EventTypes, x \in PayloadIds :
             Emit(h, t, x) => (h = es.cur /\ es.src[h].uid = user.id)]_vars

C4_Witness ==
  /\ Len(es.src) >= 2
  /\ es.cur = 2
  /\ es.src[1].uid # es.src[2].uid
  /\ handled # <<>>

\* C5: while RenderProfile stays mounted with the same subject id, no
\* subscription is closed or opened.
C5_SubscriptionPersists ==
  [][(Shown /\ Shown' /\ user'.id = user.id) => es' = es]_vars

\* C6: a failed PUT raises an error alert and leaves the subject unchanged; a
\* successful PUT makes the subject the current subject with the returned
\* fields merged over it and raises exactly one success alert; no PUT is re-issued.
C6_UpdateProfile ==
  [][\A p \in puts, out \in Outcomes : \A data \in PutResponses(p.body) :
       (mounted = "mounted" /\ handleUpdateProfile(p, out, data))
         => /\ promise' = [promise EXCEPT ![p.n] = "resolved"]
            /\ IF out = "ok"
                 THEN user' = Merge(user, data) /\ alerts' = <<"success">>
                 ELSE user' = user /\ alerts' = <<"error">>]_vars

\* C7: when the promise of the update callback rejects, the submitting view
\* goes from Submitting to Editing, keeps its draft, and no alert is emitted.
C7_RejectKeepsEditMode ==
  [][\A p \in puts :
       (p.alive /\ CallbackSettles(p, TRUE))
         => /\ isSubmitting /\ isEditing
            /\ isEditing' /\ ~isSubmitting'
            /\ Drafts' = Drafts
            /\ alerts' = <<>>]_vars

C7_Witness ==
  /\ Shown /\ isEditing /\ ~isSubmitting
  /\ Alive = {}
  /\ promise # <<>>
  /\ promise[Len(promise)] = "rejected"
  /\ Drafts # Seeded(user)

\* C8: a view has at most one update call outstanding, it is Submitting
\* exactly while it has one, and while it is Submitting the callback is not
\* invoked again and edit mode is not left.
C8_SubmitGated ==
  /\ [](Cardinality(Alive) <= 1 /\ (isSubmitting <=> Alive # {}))
  /\ [][isSubmitting => (Len(promise') = Len(promise) /\ (isSubmitting' => isEditing'))]_vars

C8_Witness ==
  /\ isSubmitting /\ isEditing
  /\ Len(promise) < MaxCalls
  /\ Alive # {}

\* C9: in every reachable state of the page, isEditing implies canEdit.
C9_EditingImpliesCanEdit == isEditing => canEdit

\* C10: every time edit mode is entered the three inputs hold the current
\* subject's values, and Cancel returns to read mode without a call of the
\* update callback.
C10_EditSeedsDraft ==
  [][/\ (~isEditing /\ isEditing') => Drafts' = Seeded(user')
     /\ Cancel => (~isEditing' /\ promise' = promise)]_vars

SavedFields == {"first_name", "last_name", "bio"}
DraftBody == [first_name |-> firstName, last_name |-> lastName, bio |-> bio]
Echo(body) == [id |-> Absent, first_name |-> body.first_name,
               last_name |-> body.last_name, bio |-> body.bio]

\* C11: when the view starts submitting, the update callback is invoked
\* exactly once, with exactly the fields first_name, last_name and bio set to
\* the drafts; when the PUT of the mounted view succeeds the callback is not
\* invoked again, the view is in read mode, and the subject shows every field
\* the PUT saved and returned (the drafts, when the answer carries them all).
C11_SubmitSendsDraft ==
  [][/\ (~isSubmitting /\ isSubmitting')
        => /\ Len(promise') = Len(promise) + 1
           /\ Cardinality(puts' \ puts) = 1
           /\ \A p \in puts' \ puts :
                DOMAIN p.body = SavedFields /\ p.body = DraftBody
     /\ alerts' = <<"success">>
        => \A p \in Alive : \A data \in PutResponses(p.body) :
             handleUpdateProfile(p, "ok", data)
               => /\ Len(promise') = Len(promise)
                  /\ Shown' /\ ~isEditing' /\ ~isSubmitting'
                  /\ \A k \in SavedFields : data[k] # Absent => user'[k] = data[k]
                  /\ data = Echo(p.body)
                       => \A k \in SavedFields : user'[k] = p.body[k]]_vars

C11_Witness ==
  /\ Shown /\ ~isEditing /\ ~isSubmitting
  /\ alerts = <<"success">>
  /\ promise = <<"resolved">>
  /\ user.first_name = "a" /\ user.last_name = "" /\ user.bio = ""
  /\ Drafts = <<"a", "", "">>

\* C12: once the join date is rendered, "Unknown date" is shown exactly when
\* the subject has no creation timestamp; a present timestamp, 0 included,
\* is shown as its date, and 0 in UTC is shown as "January 1, 1970".
C12_JoinDateOfPresentTimestamp ==
  joined # ""
    => /\ (joined = "Unknown date") <=> (created_at = <<>>)
       /\ created_at # <<>> => joined = formatJoinDate(created_at[1], zone)
       /\ (created_at = <<0>> /\ zone = 0) => joined = "January 1, 1970"

\* C13: an event of type "image" with payload id x emitted on the open
\* subscription makes exactly one invocation, of onNewImage with x; one of
\* type "urdf" makes exactly one, of onNewUrdf with x; any other type makes none.
C13_EventInvokesItsHandler ==
  [][\A h \in DOMAIN es.src, t \in EventTypes, x \in EventIds :
       (es.src[h].open /\ Emit(h, t, x))
         => /\ t = "image" => handled' = <<[handler |-> "onNewImage", arg |-> x]>>
            /\ t = "urdf" => handled' = <<[handler |-> "onNewUrdf", arg |-> x]>>
            /\ t = "other" => handled' = <<>>]_vars

C13_Witness ==
  /\ Shown /\ es.cur # 0 /\ es.src[es.cur].open
  /\ handled = <<[handler |-> "onNewUrdf", arg |-> "x2"]>>

\* C14: while the page stays mounted, a fetch in flight leads to the end of
\* the Loading state: the spinner is replaced by the profile or by
\* "User not found", whatever the outcome of the request.
C14_LoadingEnds ==
  (mounted = "mounted" /\ fetches # {}) ~> (mounted # "mounted" \/ ~isLoading)

\* C15: a change of the route id cancels no fetch in flight, and the
\* successful response of a by-id fetch overwrites the subject and the edit
\* permission whatever the route id is by then; so the page can come to rest,
\* all fetches completed, showing a subject whose id is not the route id.
C15_StaleResponseOverwrites ==
  [][/\ routeId' # routeId => fetches \subseteq fetches'
     /\ \A f \in fetches, data \in AuthRecords :
          (mounted = "mounted" /\ f.path = "id" /\ FetchDone(f, "ok", data))
            => (user' = data /\ canEdit' = (f.cur = data.id))]_vars

C15_Witness ==
  /\ Shown /\ fetches = {} /\ fetchCount = 2 /\ alerts = <<>>
  /\ routeId # NoId /\ user.id # routeId
  /\ Len(es.src) = 2 /\ es.src[1].uid = routeId /\ es.src[2].uid = user.id

\* the commit leaves the page mounted with auth loaded and without the need
\* of a request: no route id and an authenticated user at hand
CachedMe == routeId' = NoId /\ currentUser' # NoUser
Ready == mounted' = "mounted" /\ ~authLoading'
Issued(k) ==
  /\ fetchCount' = fetchCount + k
  /\ k = 0 => fetches' \subseteq fetches
  /\ k = 1 => \E f \in fetches' \ fetches :
                /\ fetches' = fetches \cup {f}
                /\ f.id = routeId'
                /\ f.path = (IF routeId' = NoId THEN "me" ELSE "id")

C17_UpdateNeverRejects ==
  /\ [](\A i \in DOMAIN promise : promise[i] # "rejected")
  /\ [][/\ (isSubmitting /\ ~isSubmitting') => ~isEditing'
        /\ \A p \in Alive, out \in {"error", "throw"} :
             handleUpdateProfile(p, out, NoData)
               => /\ promise'[p.n] = "resolved"
                  /\ alerts' = <<"error">>
                  /\ Shown' /\ ~isEditing' /\ ~isSubmitting']_vars

C17_Witness ==
  /\ Shown /\ ~isEditing /\ ~isSubmitting
  /\ alerts = <<"error">>
  /\ promise = <<"resolved">>
  /\ fetchCount = 0

\* C18: when the fetch effect runs with no route id, an authenticated user
\* held by the auth provider becomes the subject at once, with canEdit true
\* and without a request; with none held, exactly one request is made, to
\* the "me" endpoint, and its successful response becomes the subject with
\* canEdit true.
C18_MePath ==
  [][LET run == /\ Ready /\ routeId' = NoId
                /\ (mounted = "init" \/ authLoading \/ routeId' # routeId
                      \/ currentUser' # currentUser)
     IN /\ (run /\ currentUser' # NoUser)
           => /\ user' = currentUser' /\ canEdit' /\ ~isLoading'
              /\ fetches' = fetches /\ fetchCount' = fetchCount
        /\ (run /\ currentUser' = NoUser)
           => /\ fetchCount' = fetchCount + 1
              /\ \E f \in fetches' \ fetches :
                   fetches' = fetches \cup {f} /\ f.path = "me"
              /\ isLoading'
        /\ \A f \in fetches, data \in AuthRecords :
             (mounted = "mounted" /\ f.path = "me" /\ FetchDone(f, "ok", data))
               => (user' = data /\ canEdit' /\ ~isLoading')]_vars

C18_Witness ==
  /\ Shown /\ canEdit
  /\ routeId = NoId /\ currentUser = NoUser
  /\ fetches = {} /\ fetchCount = 1
====
